---- MODULE Spec2Model ----
(***************************************************************************)
(* Hellas Grid Monitor (src/hellas_grid_monitor.py): the data-fetch-and-   *)
(* derive pipeline of the dashboard script.                                *)
(*                                                                         *)
(* One dashboard session is modelled.  Every user interaction re-runs the  *)
(* script from its first line (a "render pass"); the pass is the sequence  *)
(* of the script's module-level statements, one action per fetch call or   *)
(* block of display statements.  The only state that survives a pass is   *)
(* the process-wide st.cache_data cache, the widgets' values and the       *)
(* clock.                                                                  *)
(***************************************************************************)
EXTENDS Integers, FiniteSets, Sequences, TLC

VARIABLES
    now,                            \* the clock, in seconds
    ticks,                          \* how many times the clock has advanced
    cache,                          \* st.cache_data: key -> entry
    start_date, end_date,           \* the two date_input widgets
    clicked,                        \* st.button(...) returns True in this pass
    pc,                             \* position of the script in the pass
    plant,                          \* row of map_locations being looked up
    start_time, end_time,           \* the range the last grid fetch resolved
    dataFrame_generation,           \* locals of the script
    dataFrame_consumption,
    dataFrame_price,
    latest_price,
    dataFrame_generation_forecast,
    dataFrame_consumption_forecast,
    weather_results,
    metrics,                        \* the derived metrics (lines 210-224)
    priceMetric,                    \* text of the day-ahead price metric
    rendered,                       \* sections on the page after this pass
    invoked,                        \* keys whose provider was called this pass
    refreshed,                      \* this pass is the st.rerun() of a refresh
    lastPriceCall,                  \* history: the last call of get_price_data
    sessions                        \* script threads of concurrent sessions

vars ==
    << now, ticks, cache, start_date, end_date, clicked, pc, plant,
       start_time, end_time, dataFrame_generation, dataFrame_consumption,
       dataFrame_price, latest_price, dataFrame_generation_forecast,
       dataFrame_consumption_forecast, weather_results, metrics, priceMetric,
       rendered, invoked, refreshed, lastPriceCall, sessions >>

(***************************************************************************)
(* Bounds of the model.                                                    *)
(***************************************************************************)
\* Calendar days are numbered 1..MaxDate; the session runs on day MaxDate.
MaxDate == 2
\* The clock advances at most MaxTicks times.
MaxTicks == 1
\* Rows of map_locations that are looked up (the script has 18).
NumPlants == 1
\* A source's instantaneous generation is 0..MaxMW.
MaxMW == 5
\* Days of the calendar the time-range resolver is checked on.
CalendarDays == 10
\* clouds.all is reported as 0..MaxCloud percent.
MaxCloud == 100
\* wind.speed is reported as 0..MaxWind tenths of a metre per second.
MaxWind == 100
\* Rows of map_locations in the pass in which each lookup can fail.
WeatherRows == 3
\* A generation series has 1..MaxRows rows.
MaxRows == 3
\* Sessions that fetch through the cache at the same time.
NumSessions == 2

(***************************************************************************)
(* Program constants.                                                      *)
(***************************************************************************)
\* @st.cache_data(ttl=900) on every cached fetch function.
TTL == 900
\* timedelta(days=1), in seconds.
OneDay == 86400
\* Emission factors, kg/MWh.
LigniteFactor == 1000
GasFactor == 400
\* Rows of map_locations.
MapRows == 18

\* Europe/Athens: UTC+2 in winter, UTC+3 in summer.
StdOffset == 7200
DstOffset == 10800
OneHour == 3600
\* Calendar days on which the Europe/Athens offset changes: the clock goes
\* from 03:00 to 04:00 on SpringForwardDay (a 23-hour day) and from 04:00
\* back to 03:00 on FallBackDay (a 25-hour day).
SpringForwardDay == 3
FallBackDay == 7

(***************************************************************************)
(* Dates and the time-range computation of the fetch functions.            *)
(***************************************************************************)
Dates == 1..MaxDate
\* datetime.now().date(); the date inputs have max_value=today.
Today == MaxDate

\* Wall-clock seconds of 00:00:00 on calendar day d.
WallMidnight(d) == (d - 1) * OneDay

\* The offset Europe/Athens gives a wall-clock time.
UtcOffsetOfWall(w) ==
    IF /\ w >= WallMidnight(SpringForwardDay) + 3 * OneHour
       /\ w < WallMidnight(FallBackDay) + 4 * OneHour
    THEN DstOffset ELSE StdOffset

\* The instants at which the offset changes.
SpringForwardInstant == WallMidnight(SpringForwardDay) + 3 * OneHour - StdOffset
FallBackInstant == WallMidnight(FallBackDay) + 4 * OneHour - DstOffset

\* The offset Europe/Athens gives an absolute instant.
UtcOffsetAt(i) ==
    IF i >= SpringForwardInstant /\ i < FallBackInstant
    THEN DstOffset ELSE StdOffset

\* The wall-clock reading of an absolute instant.
LocalWall(i) == i + UtcOffsetAt(i)

\* pd.Timestamp(date, tz='Europe/Athens'): local midnight as an instant.
LocalizedMidnight(d) == WallMidnight(d) - UtcOffsetOfWall(WallMidnight(d))

\* start_time = pd.Timestamp(start_date, tz='Europe/Athens')
StartTime(d) == LocalizedMidnight(d)

\* end_time = pd.Timestamp(end_date, tz=...) + timedelta(days=1)
\*            - timedelta(seconds=1): a tz-aware Timestamp adds a timedelta
\* as elapsed (absolute) time.
EndTime(d) == LocalizedMidnight(d) + OneDay - 1

(***************************************************************************)
(* Values.                                                                 *)
(***************************************************************************)
\* Labels of the generation frame's columns (a subset of color_mapping).
Sources ==
    {"Wind Onshore", "Fossil Brown coal/Lignite", "Fossil Gas",
     "Fossil Hard coal"}

\* latest_value: source label -> MW of the last complete row.
Snapshots == [Sources -> 0..MaxMW]
NoSnap == [s \in Sources |-> 0]
\* The snapshots the provider answers with in a render pass.
PassSnapshots == {[s \in Sources |-> m] : m \in {0, MaxMW}}

\* kind: "none" (not assigned), "data" (a frame with rows), "empty"
\* (pd.DataFrame()), "unknown" (the weather sentinel ("-", "-")).
\* ver identifies the provider's answer: the data as of the call.
None == [kind |-> "none", ver |-> 0, snap |-> NoSnap]
Empty == [kind |-> "empty", ver |-> 0, snap |-> NoSnap]
Unknown == [kind |-> "unknown", ver |-> 0, snap |-> NoSnap]
Data(v, s) == [kind |-> "data", ver |-> v, snap |-> s]

\* What a call of the provider's client or of a function body does.
Raise == [raises |-> TRUE, value |-> None]
Return(v) == [raises |-> FALSE, value |-> v]

Plants == 1..NumPlants

\* map_locations["Type"] by row (lines 416-421).
PlantType(row) ==
    IF row <= 4 THEN "Lignite"
    ELSE IF row <= 6 THEN "Natural Gas"
    ELSE IF row <= 11 THEN "Hydro"
    ELSE IF row <= 14 THEN "Wind"
    ELSE "Solar"

\* What the weather provider observes at a location: cloud cover in percent
\* and wind speed in tenths of m/s.  The temperature only appears in the
\* text of weather_info and is left out.
Observations == [cloud : 0..MaxCloud, wind : 0..MaxWind]
NoObs == [cloud |-> 0, wind |-> 0]
\* The observation the provider answers with in a render pass.
PassObservations == {NoObs}

\* The provider's JSON document: complete, or without one of the fields
\* read at lines 91-93 (an error document such as {"cod": 401, ...}).
Json(v, obs) == [kind |-> "json", ver |-> v, complete |-> TRUE, obs |-> obs]
ErrorJson == [kind |-> "json", ver |-> 0, complete |-> FALSE, obs |-> NoObs]

\* (weather_info, status) of a successful lookup.
Weather(v, obs, status) ==
    [kind |-> "data", ver |-> v, info |-> obs, status |-> status]

(***************************************************************************)
(* st.cache_data.                                                          *)
(***************************************************************************)
RangeKeys(fn) == {<<fn, s, e>> : s \in Dates, e \in Dates}
ForecastKey(fn) == <<fn, Today, Today + 1>>
WeatherKey(p) == <<"get_weather_data", p, 0>>

CacheKeys ==
    RangeKeys("get_generation_data") \cup RangeKeys("get_consumption_data")
    \cup {ForecastKey("get_generation_forecast"),
          ForecastKey("get_consumption_forecast")}
    \cup {WeatherKey(p) : p \in Plants}

NoEntry == [present |-> FALSE, value |-> None, fetchedAt |-> 0]
Entry(v) == [present |-> TRUE, value |-> v, fetchedAt |-> now]

\* The history of get_price_data, which keeps no entry of its own: its last
\* call's arguments, time, whether the provider failed, and what it returned.
NoCall ==
    [called |-> FALSE, key |-> <<"", 0, 0>>, at |-> 0, failed |-> FALSE,
     value |-> None]
Call(key, res, failed) ==
    [called |-> TRUE, key |-> key, at |-> now, failed |-> failed,
     value |-> res.value]

\* Hits without expiry: an entry, once stored, is served for ever.
HitsForever(key) == IF cache[key].present THEN {TRUE} ELSE {FALSE}

\* Whether a lookup of key finds a live entry.  ttl=900 keeps an entry while
\* it is younger than 900 s and drops it once it is older; whether an entry
\* of exactly 900 s is still served is up to the cache library's comparison,
\* which the script does not fix.
Hits(key) ==
    IF ~cache[key].present THEN {FALSE}
    ELSE IF now - cache[key].fetchedAt < TTL THEN {TRUE}
    ELSE IF now - cache[key].fetchedAt = TTL THEN BOOLEAN
    ELSE {FALSE}

\* The decorated function called with the arguments of key: on a hit the
\* body does not run; on a miss it runs, and its return value is stored with
\* the time of the call.  An exception is not stored.
CacheAfter(key, hit, res) ==
    IF hit THEN cache
    ELSE [cache EXCEPT
            ![key] = IF res.raises THEN NoEntry ELSE Entry(res.value)]

\* The keys whose provider has been called in this pass.
InvokedAfter(key, hit) == IF hit THEN invoked ELSE invoked \cup {key}

\* What the decorated function gives its caller.
Returned(key, hit, res) == IF hit THEN Return(cache[key].value) ELSE res

\* st.cache_data.clear()
ClearedCache == [k \in CacheKeys |-> NoEntry]

(***************************************************************************)
(* Double-precision arithmetic.  The MW column is float64, so lines        *)
(* 213-224 are IEEE-754 binary64 operations, each rounded to nearest, ties *)
(* to even.  A finite non-negative number is m * 2^e, with m a string of   *)
(* Precision bits, most significant first and the first one set; zero has  *)
(* no bits.  A division of zero by zero gives not-a-number and raises      *)
(* nothing.                                                                *)
(***************************************************************************)
Front(b) == SubSeq(b, 1, Len(b) - 1)
Last(b) == b[Len(b)]
Zeros(n) == [i \in 1..n |-> 0]
Min(a, b) == IF a <= b THEN a ELSE b

RECURSIVE Strip(_)
\* b without its leading zeros
Strip(b) == IF Len(b) = 0 \/ Head(b) = 1 THEN b ELSE Strip(Tail(b))

RECURSIVE BitsOf(_)
\* the bits of a small natural number
BitsOf(n) == IF n = 0 THEN <<>> ELSE Append(BitsOf(n \div 2), n % 2)

RECURSIVE NatOf(_)
\* the natural number of a short string of bits
NatOf(b) == IF Len(b) = 0 THEN 0 ELSE 2 * NatOf(Front(b)) + Last(b)

\* A long string of bits is worked on eight bits at a time: its digits in
\* base 256, most significant first, and back.
Digits(b) ==
    LET k == (Len(b) + 7) \div 8
        p == Zeros(8 * k - Len(b)) \o b
    IN [j \in 1..k |-> NatOf(SubSeq(p, 8 * j - 7, 8 * j))]
BitsFrom(ds) ==
    [i \in 1..(8 * Len(ds)) |->
        (ds[(i + 7) \div 8] \div 2^(7 - ((i - 1) % 8))) % 2]

RECURSIVE SumD(_, _, _)
SumD(as, bs, carry) ==
    IF Len(as) = 0 /\ Len(bs) = 0
    THEN IF carry = 0 THEN <<>> ELSE <<carry>>
    ELSE LET x == (IF Len(as) = 0 THEN 0 ELSE Last(as))
                  + (IF Len(bs) = 0 THEN 0 ELSE Last(bs)) + carry
         IN Append(SumD(IF Len(as) = 0 THEN as ELSE Front(as),
                        IF Len(bs) = 0 THEN bs ELSE Front(bs), x \div 256),
                   x % 256)
\* a + b + carry
Sum(a, b, carry) == Strip(BitsFrom(SumD(Digits(a), Digits(b), carry)))

\* b + 1
Inc(b) == Sum(b, <<>>, 1)

RECURSIVE TimesD(_, _, _)
TimesD(ds, k, carry) ==
    IF Len(ds) = 0
    THEN IF carry = 0 THEN <<>> ELSE <<carry>>
    ELSE LET x == Last(ds) * k + carry
         IN Append(TimesD(Front(ds), k, x \div 256), x % 256)
\* b * k, for a natural k in 1..256
Times(b, k) == Strip(BitsFrom(TimesD(Digits(b), k, 0)))

RECURSIVE LongDivD(_, _)
LongDivD(ds, d) ==
    IF Len(ds) = 0 THEN [q |-> <<>>, r |-> 0]
    ELSE LET p == LongDivD(Front(ds), d)
             x == 256 * p.r + Last(ds)
         IN [q |-> Append(p.q, x \div d), r |-> x % d]
\* quotient and remainder of b by a small natural d
LongDiv(b, d) ==
    LET p == LongDivD(Digits(b), d)
    IN [q |-> Strip(BitsFrom(p.q)), r |-> p.r]

Precision == 53
NaN == [nan |-> TRUE, m |-> <<>>, e |-> 0]
Zero == [nan |-> FALSE, m |-> <<>>, e |-> 0]

\* The double nearest to b * 2^e, or to a number strictly between b * 2^e
\* and (b + 1) * 2^e when sticky (b then has more than Precision bits).
Rounded(b, e, sticky) ==
    LET n == Len(b)
    IN IF n = 0 THEN Zero
       ELSE IF n <= Precision
       THEN [nan |-> FALSE, m |-> b \o Zeros(Precision - n),
             e |-> e - (Precision - n)]
       ELSE LET top == SubSeq(b, 1, Precision)
                rest == sticky \/ \E i \in Precision + 2 .. n : b[i] = 1
                up == b[Precision + 1] = 1 /\ (rest \/ b[Precision] = 1)
                r == IF up THEN Inc(top) ELSE top
            IN [nan |-> FALSE, m |-> SubSeq(r, 1, Precision),
                e |-> e + (n - Precision)
                        + (IF Len(r) > Precision THEN 1 ELSE 0)]

\* float(n) of a natural number n
FloatOf(n) == Rounded(BitsOf(n), 0, FALSE)

\* x / d for a natural d in 1..4095
DivBy(x, d) ==
    IF x.m = <<>> THEN x
    ELSE LET p == LongDiv(x.m \o Zeros(14), d)
         IN Rounded(p.q, x.e - 14, p.r # 0)

\* The bits of x in units of 2^e, e <= x.e.
Aligned(x, e) == x.m \o Zeros(x.e - e)

\* x + y
Plus(x, y) ==
    IF x.nan \/ y.nan THEN NaN
    ELSE IF x.m = <<>> THEN y
    ELSE IF y.m = <<>> THEN x
    ELSE LET e == Min(x.e, y.e)
         IN Rounded(Sum(Aligned(x, e), Aligned(y, e), 0), e, FALSE)

\* x <= y; a comparison with not-a-number is false
Leq(x, y) ==
    IF x.nan \/ y.nan THEN FALSE
    ELSE IF x.m = <<>> THEN TRUE
    ELSE IF y.m = <<>> THEN FALSE
    ELSE LET e == Min(x.e, y.e)
             a == Aligned(x, e)
             b == Aligned(y, e)
         IN \/ Len(a) < Len(b)
            \/ /\ Len(a) = Len(b)
               /\ \/ a = b
                  \/ \E i \in 1..Len(a) :
                        /\ a[i] < b[i]
                        /\ \A j \in 1..(i - 1) : a[j] = b[j]

\* a / b for naturals a <= b
Quot(a, b) == IF b = 0 THEN NaN ELSE DivBy(FloatOf(a), b)
\* q * k and q / k
Scaled(q, k) ==
    IF q.nan THEN NaN ELSE Rounded(Times(q.m, k), q.e, FALSE)
Over(q, k) == IF q.nan THEN NaN ELSE DivBy(q, k)
\* int(q) of a number q < 2^Precision
IntOf(q) ==
    IF q.m = <<>> \/ Precision + q.e <= 0 THEN 0
    ELSE NatOf(SubSeq(q.m, 1, Min(Precision, Precision + q.e)))

(***************************************************************************)
(* Derived metrics (lines 210-224).                                        *)
(***************************************************************************)
RECURSIVE SumMW(_, _)
\* latest_value[latest_value['Source'].isin(S)]['MW'].sum()
SumMW(snap, S) ==
    IF S = {} THEN 0
    ELSE LET s == CHOOSE x \in S : TRUE
         IN snap[s] + SumMW(snap, S \ {s})

renewable_generation ==
    {"Wind Onshore", "Solar", "Hydro Water Reservoir", "Biomass"}

total_generation_MW(snap) == SumMW(snap, Sources)

\* renewable_generation_MW taken as everything that is not gas.
renewable_generation_MW_notGas(snap) == SumMW(snap, Sources \ {"Fossil Gas"})

renewable_generation_MW(snap) ==
    SumMW(snap, Sources \cap renewable_generation)

renewable_percentage(snap) ==
    Scaled(Quot(renewable_generation_MW(snap), total_generation_MW(snap)), 100)

lignite_generation_MW(snap) ==
    SumMW(snap, Sources \cap {"Fossil Brown coal/Lignite"})

lignite_percentage(snap) ==
    Scaled(Quot(lignite_generation_MW(snap), total_generation_MW(snap)), 100)

natural_gas_generation_MW(snap) == SumMW(snap, Sources \cap {"Fossil Gas"})

natural_gas_percentage(snap) ==
    Scaled(Quot(natural_gas_generation_MW(snap), total_generation_MW(snap)), 100)

co2_emissions(snap) ==
    Quot(lignite_generation_MW(snap) * LigniteFactor
            + natural_gas_generation_MW(snap) * GasFactor,
         total_generation_MW(snap))

co2_emissions_percentage(snap) == Scaled(Over(co2_emissions(snap), 1000), 100)

NoMetrics ==
    [derived |-> FALSE, total |-> 0, renewable |-> NaN, lignite |-> NaN,
     gas |-> NaN, co2 |-> NaN, co2pct |-> NaN]

DerivedMetrics(snap) ==
    [derived |-> TRUE,
     total |-> total_generation_MW(snap),
     renewable |-> renewable_percentage(snap),
     lignite |-> lignite_percentage(snap),
     gas |-> natural_gas_percentage(snap),
     co2 |-> co2_emissions(snap),
     co2pct |-> co2_emissions_percentage(snap)]

\* The metrics of the snapshots a session's provider returns.
PassMetrics == [snap \in PassSnapshots |-> DerivedMetrics(snap)]

\* st.sidebar.progress(int(x)): int() of not-a-number raises ValueError and
\* progress() accepts 0..100 only.
ProgressRaises(q) == q.nan \/ IntOf(q) < 0 \/ IntOf(q) > 100

(***************************************************************************)
(* The provider's answers.                                                 *)
(***************************************************************************)
\* A row of the generation frame: its index label, the columns that hold
\* a value (the others are NaN) and the values.
Row(t, reported, mw) == [time |-> t, reported |-> reported, MW |-> mw]
Frame(rows) == [kind |-> "frame", rows |-> rows]

\* The frames of 1..MaxRows rows, in the order of their timestamps as the
\* client returns them: row i is stamped i and reports i - 1 MW for any set
\* of the sources.
Series ==
    UNION {[1..n -> SUBSET Sources] : n \in 1..MaxRows}
SeriesFrame(f) ==
    Frame([i \in DOMAIN f |->
             Row(i, f[i], [s \in Sources |-> IF s \in f[i] THEN i - 1 ELSE 0])])

\* ENTSOE_client.query_generation: an exception, or a frame.  In a render
\* pass the frame has one row, complete, stamped with the time of the call
\* and holding one of PassSnapshots.
GenerationOutcomes ==
    {Raise} \cup {Return(Frame(<<Row(now, Sources, s)>>)) : s \in PassSnapshots}
SeriesOutcomes == {Raise} \cup {Return(SeriesFrame(f)) : f \in Series}
\* query_load, query_day_ahead_prices, query_generation_forecast,
\* query_load_forecast, requests.get(...).json(): an exception or data.
ProviderOutcomes == {Raise, Return(Data(now, NoSnap))}
\* requests.get(weather_url).json(): an exception (no connection, a body
\* that is not JSON), a document without the fields, or a complete one.
WeatherOutcomes(observed) ==
    {Raise, Return(ErrorJson)} \cup {Return(Json(now, obs)) : obs \in observed}

(***************************************************************************)
(* The bodies of the fetch functions, given the provider's answer o.       *)
(***************************************************************************)
\* No row is dropped.
dropna_keepAll(rows) == rows

\* DataFrame.dropna(): the rows without a NaN, in their order.
dropna(rows) == SelectSeq(rows, LAMBDA row : row.reported = Sources)

\* (dataFrame_generation, latest_value, data_time) of line 57.
Generation(frame, last_row) ==
    [kind |-> "data", ver |-> last_row.time, snap |-> last_row.MW,
     frame |-> frame]

\* lines 49-57: no try; the provider's exception leaves the function, and
\* so does the IndexError of .iloc[-1] when dropna() leaves no row.
get_generation_data(o) ==
    IF o.raises THEN Raise
    ELSE LET complete == dropna(o.value.rows)
         IN IF complete = <<>> THEN Raise
            ELSE Return(Generation(o.value, complete[Len(complete)]))
\* lines 63-68: no try.
get_consumption_data(o) == o
\* lines 73-81: except Exception -> pd.DataFrame()
get_price_data(o) == IF o.raises THEN Return(Empty) ELSE o
\* lines 95-110 with >= 80 for > 80.
WeatherStatus_atLeast80(plant_type, cloud_cover, wind_speed) ==
    IF plant_type = "Solar"
    THEN IF cloud_cover >= 80 THEN "Low Solar Output (Cloudy)"
         ELSE IF cloud_cover > 50
              THEN "Moderate Solar Output (Partly Cloudy)"
              ELSE "High Solar Output (Clear)"
    ELSE IF plant_type = "Wind"
    THEN IF wind_speed < 30 THEN "Low Wind Output (Calm)"
         ELSE IF wind_speed < 80 THEN "Moderate Wind Output"
              ELSE "High Wind Output (Windy)"
    ELSE "-"

\* lines 95-110; wind_speed < 3 and < 8 are < 30 and < 80 tenths.
WeatherStatus(plant_type, cloud_cover, wind_speed) ==
    IF plant_type = "Solar"
    THEN IF cloud_cover > 80 THEN "Low Solar Output (Cloudy)"
         ELSE IF cloud_cover > 50
              THEN "Moderate Solar Output (Partly Cloudy)"
              ELSE "High Solar Output (Clear)"
    ELSE IF plant_type = "Wind"
    THEN IF wind_speed < 30 THEN "Low Wind Output (Calm)"
         ELSE IF wind_speed < 80 THEN "Moderate Wind Output"
              ELSE "High Wind Output (Windy)"
    ELSE "-"

\* The body with the provider's exception leaving the function.
get_weather_data_noExcept(plant_type, o) ==
    IF o.raises \/ ~o.value.complete THEN Raise
    ELSE Return(Weather(o.value.ver, o.value.obs,
                        WeatherStatus(plant_type, o.value.obs.cloud,
                                      o.value.obs.wind)))

\* lines 87-116: an exception of requests.get or .json(), or the KeyError
\* of a missing field, is caught: except Exception -> ("-", "-")
get_weather_data(plant_type, o) ==
    IF o.raises \/ ~o.value.complete THEN Return(Unknown)
    ELSE Return(Weather(o.value.ver, o.value.obs,
                        WeatherStatus(plant_type, o.value.obs.cloud,
                                      o.value.obs.wind)))
\* lines 122-130: except Exception -> pd.DataFrame()
get_generation_forecast(o) == IF o.raises THEN Return(Empty) ELSE o
\* lines 136-144: except Exception -> pd.DataFrame()
get_consumption_forecast(o) == IF o.raises THEN Return(Empty) ELSE o

(***************************************************************************)
(* The script.                                                             *)
(***************************************************************************)
locals ==
    << dataFrame_generation, dataFrame_consumption, dataFrame_price,
       latest_price, dataFrame_generation_forecast,
       dataFrame_consumption_forecast, weather_results, metrics, priceMetric,
       start_time, end_time, plant >>

NoWeather == [p \in Plants |-> None]
First(rows) == CHOOSE r \in rows : \A q \in rows : r <= q

\* The script's namespace before its first assignment and after its end.
FreshLocals ==
    /\ dataFrame_generation' = None
    /\ dataFrame_consumption' = None
    /\ dataFrame_price' = None
    /\ latest_price' = None
    /\ dataFrame_generation_forecast' = None
    /\ dataFrame_consumption_forecast' = None
    /\ weather_results' = NoWeather
    /\ metrics' = NoMetrics
    /\ priceMetric' = "none"
    /\ start_time' = 0
    /\ end_time' = 0
    /\ plant' = 1

\* A script run starts: a fresh namespace; lines 150-166 draw the sidebar
\* title and the two date inputs.
BeginPass(sd, ed, cl, rf) ==
    /\ start_date' = sd
    /\ end_date' = ed
    /\ clicked' = cl
    /\ refreshed' = rf
    /\ pc' = "generation"
    /\ FreshLocals
    /\ rendered' = {"dateFilters"}
    /\ invoked' = {}

\* An uncaught exception stops the script: what was drawn before it stays,
\* followed by the exception's box; nothing after it is drawn.
ScriptStops(box) ==
    /\ pc' = "aborted"
    /\ FreshLocals
    /\ rendered' = rendered \cup {box}
    /\ refreshed' = FALSE

\* The state in which the script is at statement p with the date inputs at
\* sd and ed, the generation fetch's result gen and the latest price price,
\* the map having the given rows; nothing is cached.
ScriptAt(p, sd, ed, gen, price, page, rows) ==
    /\ now = 0
    /\ ticks = 0
    /\ cache =
          [k \in CacheKeys \cup {WeatherKey(r) : r \in rows} |-> NoEntry]
    /\ lastPriceCall = NoCall
    /\ start_date = sd
    /\ end_date = ed
    /\ clicked = FALSE
    /\ pc = p
    /\ plant = First(rows)
    /\ start_time = 0
    /\ end_time = 0
    /\ dataFrame_generation = gen
    /\ dataFrame_consumption = None
    /\ dataFrame_price = None
    /\ latest_price = price
    /\ dataFrame_generation_forecast = None
    /\ dataFrame_consumption_forecast = None
    /\ weather_results = [r \in rows |-> None]
    /\ metrics = NoMetrics
    /\ priceMetric = "none"
    /\ rendered = page
    /\ invoked = {}
    /\ refreshed = FALSE

\* No other session is running.
NoSessions == << >>
StartRows(p, sd, ed, gen, price, page, rows) ==
    /\ ScriptAt(p, sd, ed, gen, price, page, rows)
    /\ sessions = NoSessions

\* The same with the rows of the session's map.
Start(p, sd, ed, gen, price, page) ==
    StartRows(p, sd, ed, gen, price, page, Plants)

\* The page is opened: the first script run starts with an empty cache and
\* the default dates (lines 160-161).
Init == Start("generation", Today - 1, Today, None, None, {"dateFilters"})

\* The script is not running: it ended, or an exception stopped it.
Waiting == pc \in {"idle", "aborted"}

\* The user picks other dates in the date inputs (lines 164, 166).
ChangeDates ==
    /\ Waiting
    /\ "dateFilters" \in rendered
    /\ \E sd \in Dates, ed \in Dates :
          /\ <<sd, ed>> # <<start_date, end_date>>
          /\ BeginPass(sd, ed, FALSE, FALSE)
    /\ UNCHANGED <<now, ticks, cache, lastPriceCall>>
    /\ UNCHANGED sessions

\* The user presses the refresh button (line 187).
ClickRefresh ==
    /\ Waiting
    /\ "refreshButton" \in rendered
    /\ BeginPass(start_date, end_date, TRUE, FALSE)
    /\ UNCHANGED <<now, ticks, cache, lastPriceCall>>
    /\ UNCHANGED sessions

\* Any other interaction (the map-style radio, a page reload) re-runs the
\* script with the widgets as they are.
Rerun ==
    /\ Waiting
    /\ BeginPass(start_date, end_date, FALSE, FALSE)
    /\ UNCHANGED <<now, ticks, cache, lastPriceCall>>
    /\ UNCHANGED sessions

\* Time passes between two interactions.
Waits == {TTL - 60, TTL, TTL + 60}
Tick ==
    /\ Waiting
    /\ ticks < MaxTicks
    /\ \E d \in Waits : now' = now + d
    /\ ticks' = ticks + 1
    /\ UNCHANGED <<cache, lastPriceCall, start_date, end_date, clicked, pc,
                   locals, rendered, invoked, refreshed>>
    /\ UNCHANGED sessions

\* line 169: get_generation_data(start_date, end_date)
FetchGeneration(outcomes) ==
    /\ pc = "generation"
    /\ LET key == <<"get_generation_data", start_date, end_date>>
       IN \E hit \in Hits(key), o \in outcomes :
            LET res == get_generation_data(o)
                ret == Returned(key, hit, res)
            IN /\ cache' = CacheAfter(key, hit, res)
               /\ invoked' = InvokedAfter(key, hit)
               /\ IF ret.raises
                  THEN ScriptStops("exception@169")
                  ELSE /\ pc' = "consumption"
                       /\ UNCHANGED refreshed
                       /\ dataFrame_generation' = ret.value
                       /\ IF hit
                          THEN UNCHANGED <<start_time, end_time>>
                          ELSE /\ start_time' = StartTime(start_date)
                               /\ end_time' = EndTime(end_date)
                       /\ UNCHANGED <<plant, dataFrame_consumption,
                                      dataFrame_price, latest_price,
                                      dataFrame_generation_forecast,
                                      dataFrame_consumption_forecast,
                                      weather_results, metrics, priceMetric,
                                      rendered>>
    /\ UNCHANGED <<now, ticks, start_date, end_date, clicked, lastPriceCall>>
    /\ UNCHANGED sessions

GenerationFetch == FetchGeneration(GenerationOutcomes)

\* line 171: get_consumption_data(start_date, end_date)
ConsumptionFetch ==
    /\ pc = "consumption"
    /\ LET key == <<"get_consumption_data", start_date, end_date>>
       IN \E hit \in Hits(key), o \in ProviderOutcomes :
            LET res == get_consumption_data(o)
                ret == Returned(key, hit, res)
            IN /\ cache' = CacheAfter(key, hit, res)
               /\ invoked' = InvokedAfter(key, hit)
               /\ IF ret.raises
                  THEN ScriptStops("exception@171")
                  ELSE /\ pc' = "price"
                       /\ UNCHANGED refreshed
                       /\ dataFrame_consumption' = ret.value
                       /\ IF hit
                          THEN UNCHANGED <<start_time, end_time>>
                          ELSE /\ start_time' = StartTime(start_date)
                               /\ end_time' = EndTime(end_date)
                       /\ UNCHANGED <<plant, dataFrame_generation,
                                      dataFrame_price, latest_price,
                                      dataFrame_generation_forecast,
                                      dataFrame_consumption_forecast,
                                      weather_results, metrics, priceMetric,
                                      rendered>>
    /\ UNCHANGED <<now, ticks, start_date, end_date, clicked, lastPriceCall>>
    /\ UNCHANGED sessions

\* lines 173-177: get_price_data(start_date, end_date), not cached; then
\* latest_price.
PriceFetch ==
    /\ pc = "price"
    /\ LET key == <<"get_price_data", start_date, end_date>>
       IN \E o \in ProviderOutcomes :
            LET res == get_price_data(o)
            IN /\ invoked' = invoked \cup {key}
               /\ lastPriceCall' = Call(key, res, o.raises)
               /\ dataFrame_price' = res.value
               /\ latest_price' =
                     IF res.value.kind = "empty" THEN None ELSE res.value
               /\ UNCHANGED rendered
    /\ start_time' = StartTime(start_date)
    /\ end_time' = EndTime(end_date)
    /\ pc' = "generation_forecast"
    /\ UNCHANGED <<now, ticks, cache, start_date, end_date, clicked, plant,
                   refreshed,
                   dataFrame_generation, dataFrame_consumption,
                   dataFrame_generation_forecast,
                   dataFrame_consumption_forecast, weather_results, metrics,
                   priceMetric>>
    /\ UNCHANGED sessions

\* lines 179-181: get_generation_forecast(forecast_start, forecast_end)
GenerationForecastFetch ==
    /\ pc = "generation_forecast"
    /\ LET key == ForecastKey("get_generation_forecast")
       IN \E hit \in Hits(key), o \in ProviderOutcomes :
            LET res == get_generation_forecast(o)
                ret == Returned(key, hit, res)
            IN /\ cache' = CacheAfter(key, hit, res)
               /\ invoked' = InvokedAfter(key, hit)
               /\ UNCHANGED rendered
               /\ IF hit
                  THEN UNCHANGED <<start_time, end_time>>
                  ELSE /\ start_time' = StartTime(Today)
                       /\ end_time' = EndTime(Today + 1)
               /\ dataFrame_generation_forecast' = ret.value
    /\ pc' = "consumption_forecast"
    /\ UNCHANGED <<now, ticks, start_date, end_date, clicked, plant,
                   lastPriceCall, refreshed,
                   dataFrame_generation, dataFrame_consumption,
                   dataFrame_price, latest_price,
                   dataFrame_consumption_forecast, weather_results, metrics,
                   priceMetric>>
    /\ UNCHANGED sessions

\* line 182: get_consumption_forecast(forecast_start, forecast_end)
ConsumptionForecastFetch ==
    /\ pc = "consumption_forecast"
    /\ LET key == ForecastKey("get_consumption_forecast")
       IN \E hit \in Hits(key), o \in ProviderOutcomes :
            LET res == get_consumption_forecast(o)
                ret == Returned(key, hit, res)
            IN /\ cache' = CacheAfter(key, hit, res)
               /\ invoked' = InvokedAfter(key, hit)
               /\ UNCHANGED rendered
               /\ IF hit
                  THEN UNCHANGED <<start_time, end_time>>
                  ELSE /\ start_time' = StartTime(Today)
                       /\ end_time' = EndTime(Today + 1)
               /\ dataFrame_consumption_forecast' = ret.value
    /\ pc' = "refresh"
    /\ UNCHANGED <<now, ticks, start_date, end_date, clicked, plant,
                   lastPriceCall, refreshed,
                   dataFrame_generation, dataFrame_consumption,
                   dataFrame_price, latest_price,
                   dataFrame_generation_forecast, weather_results, metrics,
                   priceMetric>>
    /\ UNCHANGED sessions

\* lines 184-189: the data timestamp, then the refresh button; a pressed
\* button clears the whole cache and st.rerun() starts the script again.
RefreshControl ==
    /\ pc = "refresh"
    /\ IF clicked
       THEN /\ cache' = ClearedCache
            /\ lastPriceCall' = NoCall
            /\ BeginPass(start_date, end_date, FALSE, TRUE)
       ELSE /\ rendered' = rendered \cup {"dataTimestamp", "refreshButton"}
            /\ pc' = "derive"
            /\ UNCHANGED <<cache, lastPriceCall, start_date, end_date, clicked,
                           locals, invoked, refreshed>>
    /\ UNCHANGED <<now, ticks>>
    /\ UNCHANGED sessions

\* lines 195-224: the export button and the derived metrics.
Derive ==
    /\ pc = "derive"
    /\ metrics' =
          IF dataFrame_generation.snap \in PassSnapshots
          THEN PassMetrics[dataFrame_generation.snap]
          ELSE DerivedMetrics(dataFrame_generation.snap)
    /\ rendered' = rendered \cup {"export"}
    /\ pc' = "sidebar"
    /\ UNCHANGED <<now, ticks, cache, lastPriceCall, start_date, end_date, clicked,
                   plant, start_time, end_time, dataFrame_generation,
                   dataFrame_consumption, dataFrame_price, latest_price,
                   dataFrame_generation_forecast,
                   dataFrame_consumption_forecast, weather_results,
                   priceMetric, invoked, refreshed>>
    /\ UNCHANGED sessions

\* lines 229-238: the quick live mix: four texts, each followed by a
\* progress bar of int(percentage).
SidebarMix ==
    /\ pc = "sidebar"
    /\ IF \/ ProgressRaises(metrics.renewable)
          \/ ProgressRaises(metrics.co2pct)
          \/ ProgressRaises(metrics.lignite)
          \/ ProgressRaises(metrics.gas)
       THEN ScriptStops("exception@232") /\ invoked' = {}
       ELSE /\ pc' = "metrics"
            /\ rendered' = rendered \cup {"liveMix"}
            /\ UNCHANGED <<locals, invoked, refreshed>>
    /\ UNCHANGED <<now, ticks, cache, lastPriceCall, start_date, end_date,
                   clicked>>
    /\ UNCHANGED sessions

\* lines 244-264: the six metrics; the price metric is "N/A" when
\* latest_price is None.
MetricsRow ==
    /\ pc = "metrics"
    /\ priceMetric' = IF latest_price = None THEN "N/A" ELSE "EUR/MWh"
    /\ rendered' =
          rendered \cup {"generationMetrics"}
          \cup (IF latest_price = None
                THEN {"priceNA"} ELSE {"priceValue"})
    /\ pc' = "tabs"
    /\ UNCHANGED <<now, ticks, cache, lastPriceCall, start_date, end_date, clicked,
                   plant, start_time, end_time, dataFrame_generation,
                   dataFrame_consumption, dataFrame_price, latest_price,
                   dataFrame_generation_forecast,
                   dataFrame_consumption_forecast, weather_results, metrics,
                   invoked, refreshed>>
    /\ UNCHANGED sessions

\* lines 270-398: tab 1 (generation mix and gauge) and tab 2 (generation
\* trend, demand curve, price trend).
LiveAndTrendTabs ==
    /\ pc = "tabs"
    /\ rendered' =
          rendered \cup {"generationMix", "generationTrend", "demandCurve",
                         "priceTrend"}
    /\ pc' = "weather"
    /\ UNCHANGED <<now, ticks, cache, lastPriceCall, start_date, end_date,
                   clicked, locals, invoked, refreshed>>
    /\ UNCHANGED sessions

\* line 467: get_weather_data(row['Lat'], row['Lon'], row['Type']) for the
\* row the apply() is at, the lookup being a hit or not and the provider
\* answering o; an exception leaving the function would leave apply() and
\* stop the script.
LookupRow(hit, o) ==
    /\ pc = "weather"
    /\ LET key == WeatherKey(plant)
           res == get_weather_data(PlantType(plant), o)
           ret == Returned(key, hit, res)
       IN /\ cache' = CacheAfter(key, hit, res)
          /\ invoked' = InvokedAfter(key, hit)
          /\ IF ret.raises
             THEN ScriptStops("exception@467")
             ELSE /\ weather_results' =
                        [weather_results EXCEPT ![plant] = ret.value]
                  /\ IF plant + 1 \in DOMAIN weather_results
                     THEN plant' = plant + 1 /\ pc' = "weather"
                     ELSE plant' = plant /\ pc' = "forecasts"
                  /\ UNCHANGED <<start_time, end_time, refreshed,
                                 dataFrame_generation, dataFrame_consumption,
                                 dataFrame_price, latest_price,
                                 dataFrame_generation_forecast,
                                 dataFrame_consumption_forecast, metrics,
                                 priceMetric, rendered>>
    /\ UNCHANGED <<now, ticks, start_date, end_date, clicked, lastPriceCall>>
    /\ UNCHANGED sessions

\* The lookup of one row, the provider observing one of observed.
Lookup(observed) ==
    /\ pc = "weather"
    /\ \E hit \in Hits(WeatherKey(plant)), o \in WeatherOutcomes(observed) :
          LookupRow(hit, o)

WeatherLookup == Lookup(PassObservations)

\* lines 468-537: the map, then tab 4 (the two forecasts); the script ends
\* and its namespace is dropped.
MapAndForecastTabs ==
    /\ pc = "forecasts"
    /\ rendered' =
          rendered \cup {"map", "generationForecast", "consumptionForecast"}
    /\ pc' = "idle"
    /\ FreshLocals
    /\ invoked' = {}
    /\ refreshed' = FALSE
    /\ UNCHANGED <<now, ticks, cache, lastPriceCall, start_date, end_date,
                   clicked>>
    /\ UNCHANGED sessions

\* The statements of the script, in order.
PassStep ==
    \/ GenerationFetch
    \/ ConsumptionFetch
    \/ PriceFetch
    \/ GenerationForecastFetch
    \/ ConsumptionForecastFetch
    \/ RefreshControl
    \/ Derive
    \/ SidebarMix
    \/ MetricsRow
    \/ LiveAndTrendTabs
    \/ WeatherLookup
    \/ MapAndForecastTabs

\* A session over time, with the date inputs left at their defaults.
Next ==
    \/ Rerun
    \/ ClickRefresh
    \/ Tick
    \/ PassStep

Spec == Init /\ [][Next]_vars

\* The same session followed for one more advance of the clock.
TickAgain ==
    /\ Waiting
    /\ ticks = MaxTicks
    /\ \E d \in Waits : now' = now + d
    /\ ticks' = ticks + 1
    /\ UNCHANGED <<cache, lastPriceCall, start_date, end_date, clicked, pc,
                   locals, rendered, invoked, refreshed>>
    /\ UNCHANGED sessions

NextLonger ==
    \/ Rerun
    \/ ClickRefresh
    \/ Tick
    \/ TickAgain
    \/ PassStep

SpecLonger == Init /\ [][NextLonger]_vars

\* A session at one instant in which the user changes the dates.
NextDates ==
    \/ ChangeDates
    \/ Rerun
    \/ ClickRefresh
    \/ PassStep

SpecDates == Init /\ [][NextDates]_vars

(***************************************************************************)
(* The metric derivation and its display on every snapshot: the script     *)
(* from line 195 to line 264, entered with any latest_value and with or    *)
(* without a latest price.                                                 *)
(***************************************************************************)
InitMetrics ==
    \E snap \in Snapshots, price \in {None, Data(0, NoSnap)} :
        Start("derive", Today - 1, Today, Data(0, snap), price,
              {"dateFilters", "dataTimestamp", "refreshButton"})

NextMetrics ==
    \/ Derive
    \/ SidebarMix
    \/ MetricsRow

SpecMetrics == InitMetrics /\ [][NextMetrics]_vars

(***************************************************************************)
(* The time range of a grid fetch on every pair of calendar days (lines    *)
(* 50-51, the same two statements in each of the five grid functions).     *)
(***************************************************************************)
InitRange ==
    \E sd \in 1..CalendarDays, ed \in 1..CalendarDays :
        Start("range", sd, ed, None, None, {"dateFilters"})

ResolveRange ==
    /\ pc = "range"
    /\ start_time' = StartTime(start_date)
    /\ end_time' = EndTime(end_date)
    /\ pc' = "query"
    /\ UNCHANGED <<now, ticks, cache, lastPriceCall, start_date, end_date,
                   clicked, plant, dataFrame_generation,
                   dataFrame_consumption, dataFrame_price, latest_price,
                   dataFrame_generation_forecast,
                   dataFrame_consumption_forecast, weather_results, metrics,
                   priceMetric, rendered, invoked, refreshed>>
    /\ UNCHANGED sessions

SpecRange == InitRange /\ [][ResolveRange]_vars

(***************************************************************************)
(* The weather lookup of one row of the map, for every row and every       *)
(* observation (line 467 for a single row).                                *)
(***************************************************************************)
InitStatus ==
    \E row \in 1..MapRows :
        StartRows("weather", Today - 1, Today, None, None,
                  {"dateFilters", "dataTimestamp", "refreshButton"}, {row})

StatusLookup == Lookup(Observations)

SpecStatus == InitStatus /\ [][StatusLookup]_vars

(***************************************************************************)
(* The map tab of a pass over WeatherRows consecutive rows of the map, in  *)
(* which each row's lookup can fail (lines 467-537).                       *)
(***************************************************************************)
InitWeather ==
    \E first \in 1..(MapRows - WeatherRows + 1) :
        StartRows("weather", Today - 1, Today, None, None,
                  {"dateFilters", "dataTimestamp", "refreshButton"},
                  first..(first + WeatherRows - 1))

NextWeather ==
    \/ WeatherLookup
    \/ MapAndForecastTabs

SpecWeather == InitWeather /\ [][NextWeather]_vars

(***************************************************************************)
(* A session whose providers may never answer.  requests.get(weather_url)  *)
(* (line 90) is called without timeout=, and ENTSOE_client is built with   *)
(* the API key alone (line 20), so its queries (lines 52, 65, 76, 125,     *)
(* 139) carry none either: a call to a silent provider does not return.    *)
(***************************************************************************)
ProviderCalls ==
    {"generation", "consumption", "price", "generation_forecast",
     "consumption_forecast", "weather"}

\* The function and arguments of the call at statement p.
KeyAt(p) ==
    CASE p = "generation" -> <<"get_generation_data", start_date, end_date>>
      [] p = "consumption" -> <<"get_consumption_data", start_date, end_date>>
      [] p = "price" -> <<"get_price_data", start_date, end_date>>
      [] p = "generation_forecast" -> ForecastKey("get_generation_forecast")
      [] p = "consumption_forecast" -> ForecastKey("get_consumption_forecast")
      [] p = "weather" -> WeatherKey(plant)

\* The script is at a provider call whose lookup misses (get_price_data
\* has no cache), the request is sent and no answer ever comes: the script
\* stays inside the call.
CallNeverReturns ==
    /\ pc \in ProviderCalls
    /\ IF pc = "price" THEN TRUE ELSE FALSE \in Hits(KeyAt(pc))
    /\ pc' = "in_call"
    /\ invoked' = invoked \cup {KeyAt(pc)}
    /\ UNCHANGED <<now, ticks, cache, lastPriceCall, start_date, end_date,
                   clicked, locals, rendered, refreshed>>
    /\ UNCHANGED sessions

NextLive ==
    \/ Rerun
    \/ ClickRefresh
    \/ PassStep
    \/ CallNeverReturns

\* The script's thread runs its next statement whenever it has one to run.
SpecLive == Init /\ [][NextLive]_vars /\ WF_vars(PassStep)

(***************************************************************************)
(* The generation fetch on every series of 1..MaxRows rows (line 169 with  *)
(* lines 52-57).                                                           *)
(***************************************************************************)
SeriesFetch == FetchGeneration(SeriesOutcomes)

SpecSeries == Init /\ [][SeriesFetch]_vars

(***************************************************************************)
(* Several sessions, each with its script thread inside a call of one of   *)
(* the cached grid functions (lines 48-68, called at lines 169 and 171),   *)
(* on the one cache of the process.  The decorator looks the key up; on a  *)
(* miss the body runs and calls the provider, and the value it returns is  *)
(* then written under the key.  The threads interleave between these       *)
(* steps.                                                                  *)
(***************************************************************************)
Sessions == 1..NumSessions
CachedCalls == {"get_generation_data", "get_consumption_data"}

\* Entries shared by every function called with the same arguments.
KeyOf_argumentsOnly(fn, sd, ed) == <<"get_generation_data", sd, ed>>

\* st.cache_data keeps one entry per function and arguments.
KeyOf(fn, sd, ed) == <<fn, sd, ed>>

\* A thread entering fn(start_date=sd, end_date=ed); answer is what the
\* body returned and is still to be written, result what the caller got.
Thread(fn, sd, ed) ==
    [fn |-> fn, start_date |-> sd, end_date |-> ed, at |-> "lookup",
     answer |-> None, result |-> None]

\* The provider's answer to a query at the time of the call: the data of
\* that query.
Answers(fn, query) ==
    {Raise}
    \cup IF fn = "get_generation_data"
         THEN {Return([kind |-> "frame", rows |-> <<Row(now, Sources, NoSnap)>>,
                       query |-> query])}
         ELSE {Return([kind |-> "data", ver |-> now, snap |-> NoSnap,
                       query |-> query])}

Body(fn, o) ==
    IF fn = "get_generation_data"
    THEN get_generation_data(o)
    ELSE get_consumption_data(o)

SessionKey(i) ==
    KeyOf(sessions[i].fn, sessions[i].start_date, sessions[i].end_date)

script ==
    << ticks, lastPriceCall, start_date, end_date, clicked, pc, locals,
       rendered, invoked, refreshed >>

\* The decorator's lookup: a live entry is returned to the caller, else the
\* body is to run.
SessionLookup(i) ==
    /\ sessions[i].at = "lookup"
    /\ \E hit \in Hits(SessionKey(i)) :
          sessions' =
            [sessions EXCEPT
               ![i].at = IF hit THEN "done" ELSE "call",
               ![i].result =
                  IF hit THEN cache[SessionKey(i)].value ELSE None]
    /\ UNCHANGED <<now, cache, script>>

\* After a miss: the library may look again before the body runs and find
\* the entry another thread has written meanwhile; otherwise the body runs,
\* the provider answers or raises, and an exception leaves the function
\* with nothing written.  A call takes time.
SessionCall(i) ==
    /\ sessions[i].at = "call"
    /\ \E hit \in Hits(SessionKey(i)) \cup {FALSE} :
          IF hit
          THEN /\ sessions' =
                    [sessions EXCEPT
                       ![i].at = "done",
                       ![i].result = cache[SessionKey(i)].value]
               /\ now' = now
          ELSE /\ \E o \in Answers(sessions[i].fn,
                                   <<sessions[i].fn, sessions[i].start_date,
                                     sessions[i].end_date>>) :
                     LET res == Body(sessions[i].fn, o)
                     IN sessions' =
                          [sessions EXCEPT
                             ![i].at =
                                IF res.raises THEN "aborted" ELSE "store",
                             ![i].answer = res.value]
               /\ now' = now + 1
    /\ UNCHANGED <<cache, script>>

\* The value the body returned is written under the key with the time of
\* the write, and handed to the caller.
SessionStore(i) ==
    /\ sessions[i].at = "store"
    /\ cache' = [cache EXCEPT ![SessionKey(i)] = Entry(sessions[i].answer)]
    /\ sessions' =
          [sessions EXCEPT
             ![i].at = "done",
             ![i].result = sessions[i].answer]
    /\ UNCHANGED <<now, script>>

InitSessions ==
    /\ ScriptAt("idle", Today - 1, Today, None, None, {"dateFilters"},
                Plants)
    /\ sessions \in
          [Sessions -> {Thread(fn, sd, Today) :
                          fn \in CachedCalls, sd \in Dates}]

NextSessions ==
    \/ \E i \in Sessions : SessionLookup(i)
    \/ \E i \in Sessions : SessionCall(i)
    \/ \E i \in Sessions : SessionStore(i)

SpecSessions == InitSessions /\ [][NextSessions]_vars

(***************************************************************************)
(* Properties.                                                             *)
(***************************************************************************)
GenerationKey == <<"get_generation_data", start_date, end_date>>
ConsumptionKey == <<"get_consumption_data", start_date, end_date>>
PriceKey == <<"get_price_data", start_date, end_date>>

\* The script executes the statement at p.
StepOf(p) == pc = p /\ pc' # p
WeatherStep == pc = "weather" /\ <<pc, plant>>' # <<pc, plant>>

\* The lookup of key was answered from the cache with the stored value.
Served(key, result) == result = cache[key].value /\ key \notin invoked'

\* The provider was called for key and the entry of key now holds what the
\* fetch returned, stored at the time of the call.
Refetched(key, result) ==
    /\ key \in invoked'
    /\ cache'[key].present
    /\ cache'[key].fetchedAt = now
    /\ cache'[key].value = result

\* C1: for every provider query operation (generation, load, day-ahead
\* price, the two forecasts, weather lookup), a fetch with the parameters of
\* an earlier fetch, made less than TTL after it, returns the value the
\* earlier fetch returned and does not call the provider.
C1_SecondFetchWithinTTLIsServed ==
    [][ /\ StepOf("generation") /\ cache[GenerationKey].present
           /\ now - cache[GenerationKey].fetchedAt < TTL
           => Served(GenerationKey, dataFrame_generation')
        /\ StepOf("consumption") /\ cache[ConsumptionKey].present
           /\ now - cache[ConsumptionKey].fetchedAt < TTL
           => Served(ConsumptionKey, dataFrame_consumption')
        /\ StepOf("generation_forecast")
           /\ cache[ForecastKey("get_generation_forecast")].present
           /\ now - cache[ForecastKey("get_generation_forecast")].fetchedAt
                < TTL
           => Served(ForecastKey("get_generation_forecast"),
                     dataFrame_generation_forecast')
        /\ StepOf("consumption_forecast")
           /\ cache[ForecastKey("get_consumption_forecast")].present
           /\ now - cache[ForecastKey("get_consumption_forecast")].fetchedAt
                < TTL
           => Served(ForecastKey("get_consumption_forecast"),
                     dataFrame_consumption_forecast')
        /\ WeatherStep /\ cache[WeatherKey(plant)].present
           /\ now - cache[WeatherKey(plant)].fetchedAt < TTL
           => Served(WeatherKey(plant), weather_results'[plant])
        /\ StepOf("price") /\ lastPriceCall.called
           /\ lastPriceCall.key = PriceKey
           /\ now - lastPriceCall.at < TTL
           => /\ dataFrame_price' = lastPriceCall.value
              /\ PriceKey \notin invoked'
      ]_vars

\* The cached fetch statements: the statement's pc, its key and the local
\* its result is assigned to, as the statement leaves them.
EntryRule(Rule(_, _)) ==
    /\ StepOf("generation")
       => Rule(GenerationKey, dataFrame_generation')
    /\ StepOf("consumption")
       => Rule(ConsumptionKey, dataFrame_consumption')
    /\ StepOf("generation_forecast")
       => Rule(ForecastKey("get_generation_forecast"),
               dataFrame_generation_forecast')
    /\ StepOf("consumption_forecast")
       => Rule(ForecastKey("get_consumption_forecast"),
               dataFrame_consumption_forecast')
    /\ WeatherStep
       => Rule(WeatherKey(plant), weather_results'[plant])

\* An entry a successful fetch created.
Successful(key) == cache[key].present /\ cache[key].value.kind = "data"
\* An entry holding a failed fetch's result.
Failed(key) ==
    cache[key].present /\ cache[key].value.kind \in {"empty", "unknown"}
Age(key) == now - cache[key].fetchedAt

C2_AsClaimed(key, result) ==
    Successful(key)
    => IF Age(key) <= TTL
       THEN Served(key, result)
       ELSE Refetched(key, result)

C2_Amended(key, result) ==
    Successful(key)
    => /\ Age(key) < TTL => Served(key, result)
       /\ Age(key) > TTL
          => /\ key \in invoked'
             /\ IF pc' = "aborted"
                THEN ~cache'[key].present
                ELSE Refetched(key, result)

C3_AsClaimed(key, result) ==
    /\ pc' = "aborted" => cache'[key].present
    /\ Failed(key) /\ Age(key) < 60 => key \notin invoked'
    /\ Failed(key) /\ Age(key) > 60 => key \in invoked'

\* C3: a failed fetch's result is cached for its key and expires after 60
\* seconds: a fetch of the key less than 60 s after the failure does not
\* call the provider, one more than 60 s after it does.
C3_FailureCachedFor60Seconds == [][EntryRule(C3_AsClaimed)]_vars

Invoked(key, result) == key \in invoked'

\* An entry stored before now that a fetch would still be served from.
StoredEarlierAndLive(c, key) ==
    c[key].present /\ c[key].fetchedAt < now /\ now - c[key].fetchedAt < TTL

\* C4: when the user presses the refresh button every cache entry is
\* removed: the pass the press starts does not end with an entry that was
\* stored before the press and is still served; and in the pass that
\* follows the clearing, every fetch calls the provider.
C4_RefreshClearsEveryEntry ==
    [][ /\ clicked /\ ~Waiting /\ Waiting'
           => \A key \in CacheKeys : ~StoredEarlierAndLive(cache', key)
        /\ refreshed
           => /\ EntryRule(Invoked)
              /\ StepOf("price") => PriceKey \in invoked'
      ]_vars

FetchExceptions == {"exception@169", "exception@171"}

\* C5: a fetch's failure is contained: whenever the script is at rest, no
\* fetch's exception has stopped it, and the date filters and the refresh
\* button are on the page.
C5_FetchFailureIsContained ==
    Waiting
    => /\ rendered \cap FetchExceptions = {}
       /\ {"dateFilters", "refreshButton"} \subseteq rendered

\* C6: when the price query of a pass failed and its generation and load
\* queries succeeded, the pass runs to its end, the generation and load
\* sections are on the page and the price metric shows "N/A".
C6_PriceFailureShowsNA ==
    /\ Waiting
    /\ lastPriceCall.called
    /\ lastPriceCall.failed
    /\ rendered \cap FetchExceptions = {}
    => /\ pc = "idle"
       /\ "priceNA" \in rendered
       /\ {"generationMetrics", "generationMix", "generationTrend",
           "demandCurve"} \subseteq rendered

\* C7: with the start date after the end date, no provider fetch is made
\* for that range in the pass.
C7_NoFetchForInvertedRange ==
    start_date > end_date
    => \A fn \in {"get_generation_data", "get_consumption_data",
                  "get_price_data"} :
          <<fn, start_date, end_date>> \notin invoked

\* C8: for start <= end the resolved range starts at 00:00:00 local time of
\* the start date and ends at 23:59:59 local time of the end date.
C8_RangeIsLocalMidnightToLastSecond ==
    pc = "query" /\ start_date <= end_date
    => /\ LocalWall(start_time) = WallMidnight(start_date)
       /\ LocalWall(end_time) = WallMidnight(end_date) + OneDay - 1

\* C9: for a snapshot whose total is 0 the shares and the CO2 intensity are
\* the not-a-number sentinel and the display of the quick live mix raises
\* nothing: the script goes on to the metrics row.
C9_ZeroTotalIsDisplayedWithoutError ==
    [][ pc = "sidebar" /\ metrics.derived /\ metrics.total = 0
        => /\ metrics.renewable.nan
           /\ metrics.lignite.nan
           /\ metrics.gas.nan
           /\ metrics.co2.nan
           /\ pc' = "metrics"
           /\ "exception@232" \notin rendered'
      ]_vars

\* renewable_percentage + lignite_percentage + natural_gas_percentage
ShareSum == Plus(Plus(metrics.renewable, metrics.lignite), metrics.gas)
Hundred == FloatOf(100)
\* 100 + 3 * 2^-46, the third double above 100
HundredAndThreeUlps == [Hundred EXCEPT !.m = Inc(Inc(Inc(Hundred.m)))]

SharesAndIntensityInRange ==
    /\ Leq(metrics.renewable, Hundred)
    /\ Leq(metrics.lignite, Hundred)
    /\ Leq(metrics.gas, Hundred)
    /\ Leq(metrics.co2, FloatOf(LigniteFactor))
    /\ Leq(metrics.co2pct, Hundred)

\* C10 as claimed: for a snapshot with total > 0 each share is within
\* [0, 100], the sum of the three shares is at most 100, and the CO2
\* intensity is within [0, 1000] and its percentage of 1000 within [0, 100].
C10_SharesSumToAtMost100 ==
    metrics.derived /\ metrics.total > 0
    => SharesAndIntensityInRange /\ Leq(ShareSum, Hundred)

\* C10, amended: for a snapshot with total > 0 each share is within
\* [0, 100], the sum of the three shares is at most 100 up to the rounding
\* of double precision (at most 100 + 3 * 2^-46), and the CO2 intensity is
\* within [0, 1000] and its percentage of 1000 within [0, 100].
C10_SharesSumToAtMost100UpToRounding ==
    metrics.derived /\ metrics.total > 0
    => SharesAndIntensityInRange /\ Leq(ShareSum, HundredAndThreeUlps)

\* C10's case: the quick live mix of a snapshot with all three shares
\* positive has been displayed, and the sum of the shares is above 100.
C10_Witness ==
    /\ pc = "metrics"
    /\ metrics.derived
    /\ metrics.total > 0
    /\ \A q \in {metrics.renewable, metrics.lignite, metrics.gas} :
          ~Leq(q, Zero)
    /\ ~Leq(ShareSum, Hundred)

\* The level a status text stands for; "-" is the status of a plant whose
\* output does not depend on the weather.
Level(status) ==
    IF status \in {"Low Solar Output (Cloudy)", "Low Wind Output (Calm)"}
    THEN "LowOutput"
    ELSE IF status \in {"Moderate Solar Output (Partly Cloudy)",
                        "Moderate Wind Output"}
    THEN "ModerateOutput"
    ELSE IF status \in {"High Solar Output (Clear)",
                        "High Wind Output (Windy)"}
    THEN "HighOutput"
    ELSE IF status = "-" THEN "NotApplicable"
    ELSE "other"

\* The row's lookup has returned with the provider's observation.
LookedUp ==
    /\ pc = "forecasts"
    /\ weather_results[plant].kind = "data"

\* C11: every successful weather lookup gives, for a Solar plant, LowOutput
\* when cloud cover > 80, ModerateOutput when 50 < cloud cover <= 80 and
\* HighOutput otherwise; for a Wind plant, LowOutput when wind speed < 3 m/s,
\* ModerateOutput when 3 <= wind speed < 8 and HighOutput otherwise; for
\* every other plant NotApplicable, whatever was observed.
C11_StatusFollowsTheThresholds ==
    LookedUp
    => LET cloud == weather_results[plant].info.cloud
           wind == weather_results[plant].info.wind
           level == Level(weather_results[plant].status)
       IN /\ PlantType(plant) = "Solar"
             => /\ cloud > 80 => level = "LowOutput"
                /\ 50 < cloud /\ cloud <= 80 => level = "ModerateOutput"
                /\ cloud <= 50 => level = "HighOutput"
          /\ PlantType(plant) = "Wind"
             => /\ wind < 30 => level = "LowOutput"
                /\ 30 <= wind /\ wind < 80 => level = "ModerateOutput"
                /\ wind >= 80 => level = "HighOutput"
          /\ PlantType(plant) \notin {"Solar", "Wind"}
             => level = "NotApplicable"

\* C11, witness: a Solar plant under exactly 80 % cloud cover is at
\* ModerateOutput.
C11_Witness ==
    /\ LookedUp
    /\ PlantType(plant) = "Solar"
    /\ weather_results[plant].info.cloud = 80
    /\ Level(weather_results[plant].status) = "ModerateOutput"

\* The ways a weather lookup fails: requests.get or .json() raises, or the
\* document lacks a field.
WeatherFailures == {Raise, Return(ErrorJson)}

\* The row the apply() is at is looked up, the provider failing.
FailedLookup == \E o \in WeatherFailures : LookupRow(FALSE, o)

\* C12: a failed weather lookup gives the sentinel ("-", "-") for that plant
\* only: no exception stops the script, the results of the other plants
\* are kept, the remaining plants are looked up, so that every plant has a
\* result when the map is drawn, and the pass runs to its end with the map
\* and the forecasts on the page.
C12_WeatherFailureIsContained ==
    /\ [][FailedLookup
           => /\ weather_results'[plant] = Unknown
              /\ \A q \in DOMAIN weather_results \ {plant} :
                    weather_results'[q] = weather_results[q]
              /\ pc' \in {"weather", "forecasts"}
              /\ rendered' = rendered]_vars
    /\ [](pc # "aborted")
    /\ [](pc = "forecasts"
             => \A q \in DOMAIN weather_results :
                   weather_results[q].kind \in {"unknown", "data"})
    /\ [](pc = "idle"
             => {"map", "generationForecast", "consumptionForecast"}
                  \subseteq rendered)

\* C12, witness: a pass that ended with the map on the page, in which the
\* lookup of one plant failed and the lookup of a later plant succeeded.
C12_Witness ==
    /\ pc = "idle"
    /\ "map" \in rendered
    /\ \E p \in 1..MapRows, q \in 1..MapRows :
          /\ p < q
          /\ {WeatherKey(p), WeatherKey(q)} \subseteq DOMAIN cache
          /\ cache[WeatherKey(p)].value = Unknown
          /\ cache[WeatherKey(q)].value.kind = "data"

\* C13: every render pass eventually completes, also when a provider never
\* answers: a script run that has started comes to rest.
C13_EveryPassCompletes == ~Waiting ~> Waiting

\* The rows of the fetched series that hold a value for every source.
FullyPopulated ==
    {i \in DOMAIN dataFrame_generation.frame.rows :
        dataFrame_generation.frame.rows[i].reported = Sources}

\* The generation fetch has returned a series.
Fetched ==
    /\ pc = "consumption"
    /\ dataFrame_generation.kind = "data"

\* C15: when the series has a row with a value for every source, the
\* snapshot the generation fetch returns is the chronologically last such
\* row, later rows with a missing value being skipped, and data_time is that
\* row's timestamp.
C15_SnapshotIsLastFullyPopulatedRow ==
    Fetched /\ FullyPopulated # {}
    => \E i \in FullyPopulated :
          /\ \A j \in FullyPopulated :
                dataFrame_generation.frame.rows[j].time
                  <= dataFrame_generation.frame.rows[i].time
          /\ dataFrame_generation.snap = dataFrame_generation.frame.rows[i].MW
          /\ dataFrame_generation.ver = dataFrame_generation.frame.rows[i].time

\* C15, witness: a series of three rows whose last two rows miss a value;
\* the snapshot is the first row, stamped 1.
C15_Witness ==
    /\ Fetched
    /\ Len(dataFrame_generation.frame.rows) = 3
    /\ FullyPopulated = {1}
    /\ dataFrame_generation.frame.rows[3].reported # {}
    /\ dataFrame_generation.ver = 1
    /\ dataFrame_generation.snap = dataFrame_generation.frame.rows[1].MW

\* The query a value answers.
QueryOf(fn, value) ==
    IF fn = "get_generation_data" THEN value.frame.query ELSE value.query

\* Thread i writes its entry.
Stores(i) == sessions[i].at = "store" /\ sessions'[i].at = "done"
Asked(i) == <<sessions[i].fn, sessions[i].start_date, sessions[i].end_date>>

====
